---------------------------- MODULE Spec2Model ----------------------------
(***************************************************************************)
(* Model of AdaptiveNERClassifier (src/src/python/ner_classifier.py): the  *)
(* keyword matcher, batch classification with the learned fallback, the    *)
(* category discovery, the training of the learned model, saving and       *)
(* loading, the construction from a rule file (SpecConfig) and one run of  *)
(* train_and_log_model (src/src/python/train_model.py, SpecRun).           *)
(*                                                                         *)
(* Encoding. A text is a sequence of one-character strings.  A weight, a   *)
(* threshold and a probability are integers in tenths (15 is 1.5).  A      *)
(* confidence is the exact fraction [num, den] of the division the code    *)
(* performs; the weights used are dyadic, so the floating-point quotient   *)
(* orders exactly as the fraction does.                                    *)
(***************************************************************************)
EXTENDS Integers, Sequences, FiniteSets, TLC

VARIABLES
    rules,          \* self.rules: the loaded configuration
    vectorizer,     \* self.vectorizer: its fitted vocabulary, or unfitted
    ml_classifier,  \* self.ml_classifier: None, an unfitted forest, or a fitted one
    discovered_categories, \* self.discovered_categories
    call,           \* the last method called: its name, what it raised, its
                    \* argument (classify_batch) and the rows it worked on
    result,         \* the value that call returned
    everFit,        \* whether train_ml_model ever went past its sample check
    bundle,         \* the file save_model wrote: <<>> or <<the pickled dict>>
    pc,             \* train_and_log_model: the statement it is at
    dataset,        \* train_and_log_model: df, the frame read from data_path
    classified_df,  \* train_and_log_model: the first classification
    final_classified, \* train_and_log_model: the local of that name
    text,           \* matcher harness: the text under examination
    km,             \* matcher harness: keyword_match(text), once applied
    prev            \* matcher harness: text and result before the last edit

vars == <<rules, vectorizer, ml_classifier, discovered_categories, call,
          result, everFit, bundle, pc, dataset, classified_df,
          final_classified, text, km, prev>>

engineVars == <<vectorizer, ml_classifier, discovered_categories, call,
                result, everFit, bundle>>

runVars == <<pc, dataset, classified_df, final_classified>>

matchVars == <<text, km, prev>>

-----------------------------------------------------------------------------
(* Bounds *)

\* most words in a text of the matcher harness
MaxWords == 3

\* most rows in a frame handed to classify_batch
MaxRows == 2

\* most rows in a frame handed to train_ml_model
MaxBatch == 11

\* most words in a text matched on a classifier constructed from a rule file
MaxConfigWords == 2

-----------------------------------------------------------------------------
(* Words and texts *)

W_doctor == <<"d", "o", "c", "t", "o", "r">>
W_food == <<"f", "o", "o", "d">>
W_uber == <<"u", "b", "e", "r">>
W_gas == <<"g", "a", "s">>
W_vegas == <<"v", "e", "g", "a", "s">>
W_acme == <<"a", "c", "m", "e">>
W_corp == <<"c", "o", "r", "p">>
W_ride == <<"r", "i", "d", "e">>
W_las == <<"l", "a", "s">>
W_trip == <<"t", "r", "i", "p">>
W_now == <<"n", "o", "w">>
W_UBER == <<"U", "B", "E", "R">>

Whitespace == {" "}

\* " ".join(words)
RECURSIVE Join(_)
Join(words) ==
    IF words = <<>> THEN <<>>
    ELSE IF Len(words) = 1 THEN words[1]
    ELSE words[1] \o <<" ">> \o Join(Tail(words))

\* the character U+017F, LATIN SMALL LETTER LONG S, written by its name
LongS == "long s"

W_gas_long == <<"g", "a", LongS>>

ascii_lowercase ==
    <<"a", "b", "c", "d", "e", "f", "g", "h", "i", "j", "k", "l", "m",
      "n", "o", "p", "q", "r", "s", "t", "u", "v", "w", "x", "y", "z">>

ascii_uppercase ==
    <<"A", "B", "C", "D", "E", "F", "G", "H", "I", "J", "K", "L", "M",
      "N", "O", "P", "Q", "R", "S", "T", "U", "V", "W", "X", "Y", "Z">>

\* the lower-case letter of every upper-case letter
LowerOf ==
    [c \in { ascii_uppercase[i] : i \in 1..26 } |->
       ascii_lowercase[CHOOSE i \in 1..26 : ascii_uppercase[i] = c]]

\* the upper-case letter of every lower-case letter; the long s has the
\* upper case "S" and is its own lower case
UpperOf ==
    [c \in { ascii_lowercase[i] : i \in 1..26 } \cup {LongS} |->
       IF c = LongS THEN "S"
       ELSE ascii_uppercase[CHOOSE i \in 1..26 : ascii_lowercase[i] = c]]

\* str.lower(), on the characters the texts use
Lower(c) == IF c \in DOMAIN LowerOf THEN LowerOf[c] ELSE c

lower(s) == [i \in 1..Len(s) |-> Lower(s[i])]

\* str.upper(), on the characters the texts use
Upper(c) == IF c \in DOMAIN UpperOf THEN UpperOf[c] ELSE c

upper(s) == [i \in 1..Len(s) |-> Upper(s[i])]

\* str.split(): the maximal runs of non-whitespace characters
RECURSIVE splitAcc(_, _, _)
splitAcc(s, cur, out) ==
    IF s = <<>> THEN (IF cur = <<>> THEN out ELSE Append(out, cur))
    ELSE IF Head(s) \in Whitespace
         THEN splitAcc(Tail(s), <<>>, IF cur = <<>> THEN out ELSE Append(out, cur))
         ELSE splitAcc(Tail(s), Append(cur, Head(s)), out)

split(s) == splitAcc(s, <<>>, <<>>)

\* Python's `kw in s` on strings: kw occurs in s as a substring
In(kw, s) ==
    \E i \in 1..(Len(s) - Len(kw) + 1) : SubSeq(s, i, i + Len(kw) - 1) = kw

-----------------------------------------------------------------------------
(* Rule configuration *)

\* the categories of a rule file, in the file's order; Groceries carries no
\* weight and takes the default
Categories(wHealth, wTransport) ==
    << [name |-> "Healthcare",
        info |-> [keywords |-> <<W_doctor>>, weight |-> wHealth]],
       [name |-> "Groceries",
        info |-> [keywords |-> <<W_food>>]],
       [name |-> "Transportation",
        info |-> [keywords |-> <<W_uber, W_gas>>, weight |-> wTransport]] >>

\* weights in tenths: 0.0, 0.5, 1.0, 1.5
Weights == {0, 5, 10, 15}

\* thresholds in tenths
Thresholds == {0, 3}

RuleFile(wHealth, wTransport, ut) ==
    [categories |-> Categories(wHealth, wTransport),
     unknown_threshold |-> ut,
     review_threshold |-> 5]

RuleSets ==
    { RuleFile(wh, 10, ut) : wh \in Weights, ut \in Thresholds }

\* the rule files the engine runs are drawn from
EngineRuleSets == { RuleFile(15, 10, 3), RuleFile(15, 10, 0) }

\* the rule files the matcher harness is drawn from
MatchRuleSets == { RuleFile(wh, 10, 3) : wh \in Weights }

-----------------------------------------------------------------------------
(* keyword_match *)

Zero == [num |-> 0, den |-> 1]

\* a < b on fractions with positive denominators
Less(a, b) == a.num * b.den < b.num * a.den

\* sum(1 for kw in info['keywords'] if kw in text_lower)
score(info, text_lower) ==
    Cardinality({ i \in 1..Len(info.keywords) : In(info.keywords[i], text_lower) })

\* info.get('weight', 1.0)
weight(info) == IF "weight" \in DOMAIN info THEN info.weight ELSE 10

\* the dict `matches`, as the sequence of its items in insertion order
matches(categories, text_lower) ==
    LET all == [i \in 1..Len(categories) |->
                  [category |-> categories[i].name,
                   score |-> score(categories[i].info, text_lower),
                   value |-> score(categories[i].info, text_lower)
                             * weight(categories[i].info)]]
    IN  SelectSeq(all, LAMBDA m : m.score > 0)

\* best_category taking the smallest value where the code takes the largest
best_category_min(ms) ==
    ms[CHOOSE i \in 1..Len(ms) :
          /\ \A j \in 1..Len(ms) : ms[j].value >= ms[i].value
          /\ \A j \in 1..(i - 1) : ms[j].value > ms[i].value]

\* max(matches, key=matches.get): the first key of the largest value
best_category(ms) ==
    ms[CHOOSE i \in 1..Len(ms) :
          /\ \A j \in 1..Len(ms) : ms[j].value <= ms[i].value
          /\ \A j \in 1..(i - 1) : ms[j].value < ms[i].value]

\* keyword_match looking for the keywords in the text as it was given
keyword_match_cased(r, s) ==
    LET ms == matches(r.categories, s)
    IN  IF ms # <<>>
        THEN << best_category(ms).category,
                [num |-> best_category(ms).value, den |-> 10 * Len(split(s))] >>
        ELSE << "Unknown", Zero >>

\* AdaptiveNERClassifier.keyword_match: the pair (category, confidence)
keyword_match(r, s) ==
    LET ms == matches(r.categories, lower(s))
    IN  IF ms # <<>>
        THEN << best_category(ms).category,
                [num |-> best_category(ms).value, den |-> 10 * Len(split(s))] >>
        ELSE << "Unknown", Zero >>

-----------------------------------------------------------------------------
(* Matcher harness: one text, keyword_match applied to it, then edits of   *)
(* the text with keyword_match applied again.                              *)

Words == {W_uber, W_gas, W_vegas, W_doctor, W_food, W_acme, W_UBER}

Texts ==
    { Join(ws) : ws \in UNION { [1..n -> Words] : n \in 0..MaxWords } }
      \cup { <<" ">>, W_gas_long }

NoResult == <<>>

NoEdit == [edit |-> "none", text |-> <<>>, km |-> NoResult]

\* every keyword of the configuration
AllKeywords(r) ==
    UNION { { r.categories[i].info.keywords[j] :
                j \in 1..Len(r.categories[i].info.keywords) } :
            i \in 1..Len(r.categories) }

\* the keywords of the configuration that occur in the lower-cased text
Found(r, s) == { kw \in AllKeywords(r) : In(kw, lower(s)) }

\* the narrations of the input frames: a confident Transportation match, a
\* weak one ("gas" inside "vegas", four words), a Healthcare match, no match.
\* No two of them share a token.
\* A frame names its narrations by strings; Chars gives their characters.
Narrations == {"uber ride", "las vegas trip now", "doctor", "acme corp"}

Chars ==
    [t \in Narrations |->
       CASE t = "uber ride" -> Join(<<W_uber, W_ride>>)
         [] t = "las vegas trip now" -> Join(<<W_las, W_vegas, W_trip, W_now>>)
         [] t = "doctor" -> W_doctor
         [] t = "acme corp" -> Join(<<W_acme, W_corp>>)]

\* keyword_match over the rule files and texts of the harness, tabulated
KM == [r \in MatchRuleSets |-> [t \in Texts |-> keyword_match(r, t)]]

\* keyword_match over the rule files and narrations of the engine, tabulated
KMN ==
    [r \in EngineRuleSets |->
       [t \in Narrations |-> keyword_match(r, Chars[t])]]

\* the caller applies keyword_match to the text
Match ==
    /\ km = NoResult
    /\ km' = KM[rules][text]
    /\ UNCHANGED <<rules, engineVars, runVars, text, prev>>

\* the caller adds one keyword at the end of the text and matches again
AppendKeyword(kw) ==
    /\ km # NoResult
    /\ prev = NoEdit
    /\ Len(split(text)) < MaxWords
    /\ text' = (IF text = <<>> THEN kw ELSE text \o <<" ">> \o kw)
    /\ km' = keyword_match(rules, text')
    /\ prev' = [edit |-> "append", text |-> text, km |-> km]
    /\ UNCHANGED <<rules, engineVars, runVars>>

\* the caller puts a keyword in the place of a word that holds no keyword,
\* and matches again
ReplaceWord(i, kw) ==
    /\ km # NoResult
    /\ prev = NoEdit
    /\ LET ws == split(text)
       IN  /\ i \in 1..Len(ws)
           /\ Found(rules, ws[i]) = {}
           /\ text' = Join([ws EXCEPT ![i] = kw])
    /\ km' = keyword_match(rules, text')
    /\ prev' = [edit |-> "replace", text |-> text, km |-> km]
    /\ UNCHANGED <<rules, engineVars, runVars>>

\* the caller matches the upper-cased text, then the lower-cased text
MatchCases ==
    /\ km = NoResult
    /\ text' = lower(text)
    /\ km' = keyword_match(rules, lower(text))
    /\ prev' = [edit |-> "upper", text |-> upper(text),
                km |-> keyword_match(rules, upper(text))]
    /\ UNCHANGED <<rules, engineVars, runVars>>

\* TfidfVectorizer(max_features=500, ngram_range=(1, 3)), not fitted
Unfitted == [fitted |-> FALSE, vocabulary |-> {}]

\* self.ml_classifier = None
None == [state |-> "None", n_features_in |-> 0, classes |-> {}, fit_vocabulary |-> {}]

\* AdaptiveNERClassifier.__init__, after the rule file is loaded
EngineInit ==
    /\ vectorizer = Unfitted
    /\ ml_classifier = None
    /\ discovered_categories = <<>>
    /\ call = [op |-> "__init__", raised |-> "no", arg |-> <<>>, n |-> 0]
    /\ result = <<>>
    /\ everFit = FALSE
    /\ bundle = <<>>

\* no run of train_and_log_model
Unbound == [bound |-> FALSE, df |-> <<>>]

NoRun ==
    /\ pc = "none"
    /\ dataset = <<>>
    /\ classified_df = <<>>
    /\ final_classified = Unbound

InitMatch ==
    /\ rules \in MatchRuleSets
    /\ EngineInit
    /\ NoRun
    /\ text \in Texts
    /\ km = NoResult
    /\ prev = NoEdit

NextMatch ==
    \/ Match
    \/ \E kw \in AllKeywords(rules) : AppendKeyword(kw)
    \/ \E i \in 1..MaxWords, kw \in AllKeywords(rules) : ReplaceWord(i, kw)
    \/ MatchCases

SpecMatch == InitMatch /\ [][NextMatch]_vars

-----------------------------------------------------------------------------
(* Construction from a rule file: the parsed file, __init__, and           *)
(* keyword_match on the classifier it gave.                                *)

\* the rule file of the tests
RuleFileOfTests == RuleFile(15, 10, 3)

\* the categories of the rule file, the first one without its keywords
NoKeywords ==
    [i \in 1..Len(RuleFileOfTests.categories) |->
       IF i = 1
       THEN [name |-> RuleFileOfTests.categories[i].name,
             info |-> [weight |-> 15]]
       ELSE RuleFileOfTests.categories[i]]

\* what yaml.safe_load gives for the rule file as it is and for the file
\* with one part left out
Configs ==
    { RuleFileOfTests,
      [unknown_threshold |-> 3, review_threshold |-> 5],
      [categories |-> RuleFileOfTests.categories, review_threshold |-> 5],
      [categories |-> RuleFileOfTests.categories, unknown_threshold |-> 3],
      [categories |-> NoKeywords, unknown_threshold |-> 3,
       review_threshold |-> 5] }

\* the texts matched on a constructed classifier
ConfigTexts ==
    { Join(ws) : ws \in UNION { [1..n -> Words] : n \in 0..MaxConfigWords } }

\* __init__: self.rules['categories'] and self.rules['unknown_threshold']
\* raise KeyError on a missing key; nothing else of the file is read
init_raises(config) ==
    IF "categories" \notin DOMAIN config THEN "KeyError"
    ELSE IF "unknown_threshold" \notin DOMAIN config THEN "KeyError"
    ELSE "no"

\* keyword_match: info['keywords'] raises KeyError in the loop over the
\* categories, whatever the text
match_raises(r) ==
    IF \E i \in 1..Len(r.categories) :
          "keywords" \notin DOMAIN r.categories[i].info
    THEN "KeyError"
    ELSE "no"

\* AdaptiveNERClassifier(rules_path)
Construct(config) ==
    /\ call.op = "new"
    /\ call' = [op |-> "__init__", raised |-> init_raises(config),
                arg |-> <<config>>, n |-> 0]
    /\ rules' = (IF init_raises(config) = "no" THEN config ELSE rules)
    /\ UNCHANGED <<vectorizer, ml_classifier, discovered_categories, result,
                   everFit, bundle, runVars, matchVars>>

\* classifier.keyword_match(t), on a classifier that was constructed
ConfigMatch(t) ==
    /\ call.op \in {"__init__", "keyword_match"}
    /\ call.op = "__init__" => call.raised = "no"
    /\ call' = [op |-> "keyword_match", raised |-> match_raises(rules),
                arg |-> <<>>, n |-> 0]
    /\ text' = t
    /\ km' = (IF match_raises(rules) = "no"
              THEN keyword_match(rules, t) ELSE NoResult)
    /\ UNCHANGED <<rules, vectorizer, ml_classifier, discovered_categories,
                   result, everFit, bundle, runVars, prev>>

InitConfig ==
    /\ rules = <<>>
    /\ vectorizer = Unfitted
    /\ ml_classifier = None
    /\ discovered_categories = <<>>
    /\ call = [op |-> "new", raised |-> "no", arg |-> <<>>, n |-> 0]
    /\ result = <<>>
    /\ everFit = FALSE
    /\ bundle = <<>>
    /\ NoRun
    /\ text = <<>>
    /\ km = NoResult
    /\ prev = NoEdit

NextConfig ==
    \/ \E config \in Configs : Construct(config)
    \/ \E t \in ConfigTexts : ConfigMatch(t)

SpecConfig == InitConfig /\ [][NextConfig]_vars

-----------------------------------------------------------------------------
(* Input frames *)

\* if len(train_df) < 10
MinTrainSamples == 10

\* if len(unknown_texts) < 5
MinDiscoverTexts == 5

\* the amount column: all rows of a frame carry the same amount
Amounts == {0, 45}

\* a frame of n rows: k rows of narration a, then n - k rows of narration b
Frame(a, b, n, k, amt) ==
    [i \in 1..n |-> [narration |-> IF i <= k THEN a ELSE b, amount |-> amt]]

FrameSizes == 0..MaxRows

\* the pairs <<n, k>>: the second narration fills one row or none
Splits(sizes) == UNION { { <<n, n - 1>>, <<n, n>> } : n \in sizes }

\* a frame whose rows differ in amount as well: k rows of narration a and
\* amount 45, then n - k rows of narration b and amount 0
Batch(a, b, n, k) ==
    [i \in 1..n |-> [narration |-> IF i <= k THEN a ELSE b,
                     amount |-> IF i <= k THEN 45 ELSE 0]]

\* the frames handed to classify_batch
Frames ==
    { Batch(a, b, nk[1], nk[2]) :
        a \in Narrations, b \in Narrations, nk \in Splits(FrameSizes) }

\* the lists of texts handed to discover_new_categories
TextLists ==
    { [i \in 1..nk[1] |-> IF i <= nk[2] THEN a ELSE b] :
        a \in Narrations, b \in Narrations,
        nk \in Splits({0, MinDiscoverTexts - 1, MinDiscoverTexts}) }

-----------------------------------------------------------------------------
(* TfidfVectorizer *)

\* ngram_range=(1, 3)
ngram_range == <<1, 3>>

\* the analyzer: lower-cased tokens of two or more word characters
tokens(s) == SelectSeq(split(lower(s)), LAMBDA w : Len(w) >= 2)

\* the word n-grams of one document
ngrams(s) ==
    LET t == tokens(s)
    IN  { SubSeq(t, g[1], g[1] + g[2] - 1) :
            g \in { g \in (1..Len(t)) \X (ngram_range[1]..ngram_range[2]) :
                      g[1] + g[2] - 1 <= Len(t) } }

\* the n-grams of the narrations, tabulated
NGrams == [t \in Narrations |-> ngrams(Chars[t])]

\* fit / fit_transform: the vocabulary of the corpus.  The corpora of the
\* model hold fewer than max_features n-grams, so the cap never cuts.
fit(corpus) ==
    [fitted |-> TRUE,
     vocabulary |-> UNION { NGrams[corpus[i]] : i \in 1..Len(corpus) }]

-----------------------------------------------------------------------------
(* classify_batch and _ml_classify *)

Threshold(t) == [num |-> t, den |-> 10]

\* the loop of classify_batch: one rule-based row per input row
rule_based(r, df) ==
    [i \in 1..Len(df) |->
       [narration |-> df[i].narration,
        amount |-> df[i].amount,
        category |-> KMN[r][df[i].narration][1],
        confidence |-> KMN[r][df[i].narration][2],
        method |-> "rule-based"]]

\* the mask with <= where the code has <
low_conf_mask_le(r, result_df) ==
    { i \in 1..Len(result_df) :
        ~Less(Threshold(r.unknown_threshold), result_df[i].confidence) }

\* low_conf_mask = result_df['confidence'] < self.unknown_threshold
low_conf_mask(r, result_df) ==
    { i \in 1..Len(result_df) :
        Less(result_df[i].confidence, Threshold(r.unknown_threshold)) }

\* the probabilities a forest reports, in tenths
Probas == {5, 10}

\* predict / predict_proba(...).max(axis=1) of a fitted forest on one row: a
\* class of the training labels, with a probability no lower than one over
\* the number of classes.  Which one the trees give is left open.
predict(ml) ==
    { [label |-> c, proba |-> [num |-> q, den |-> 10]] :
        c \in ml.classes,
        q \in { q \in Probas : q * Cardinality(ml.classes) >= 10 } }

Raise(e) == [raised |-> e, df |-> <<>>]

\* a merge that hands back the rows of the mask alone
ml_classify_low_only(vec, ml, df, mask) ==
    IF ~vec.fitted THEN { Raise("NotFittedError") }
    ELSE IF ml.state # "fitted" THEN { Raise("NotFittedError") }
    ELSE IF Cardinality(vec.vocabulary) # ml.n_features_in
    THEN { Raise("ValueError") }
    ELSE LET at(k) == CHOOSE i \in mask :
                         Cardinality({ j \in mask : j < i }) = k - 1
         IN  { [raised |-> "no",
                df |-> [k \in 1..Cardinality(mask) |->
                          [df[at(k)] EXCEPT
                             !.category = p[df[at(k)].narration].label,
                             !.confidence = p[df[at(k)].narration].proba,
                             !.method = "ml-based"]]] :
               p \in [ { df[i].narration : i \in mask } -> predict(ml) ] }

\* _ml_classify: the outcomes of the transform, the prediction and the merge
ml_classify(vec, ml, df, mask) ==
    IF ~vec.fitted THEN { Raise("NotFittedError") }
    ELSE IF ml.state # "fitted" THEN { Raise("NotFittedError") }
    ELSE IF Cardinality(vec.vocabulary) # ml.n_features_in
    THEN { Raise("ValueError") }
    ELSE { [raised |-> "no",
            df |-> [i \in 1..Len(df) |->
                      IF i \in mask
                      THEN [df[i] EXCEPT
                              !.category = p[df[i].narration].label,
                              !.confidence = p[df[i].narration].proba,
                              !.method = "ml-based"]
                      ELSE df[i]]] :
           p \in [ { df[i].narration : i \in mask } -> predict(ml) ] }

\* the fallback taken whether or not a model exists
use_ml_always(ml) == TRUE

\* if self.ml_classifier is not None
use_ml(ml) == ml.state # "None"

\* classify_batch: the outcomes for one input frame
classify_batch(r, vec, ml, df) ==
    LET result_df == rule_based(r, df)
    IN  IF ~use_ml(ml) THEN { [raised |-> "no", df |-> result_df] }
        ELSE IF result_df = <<>> THEN { Raise("KeyError") }
        ELSE IF low_conf_mask(r, result_df) = {}
        THEN { [raised |-> "no", df |-> result_df] }
        ELSE ml_classify(vec, ml, result_df, low_conf_mask(r, result_df))

ClassifyBatch(df) ==
    /\ \E out \in classify_batch(rules, vectorizer, ml_classifier, df) :
         /\ call' = [op |-> "classify_batch", raised |-> out.raised,
                     arg |-> df, n |-> Len(df)]
         /\ result' = out.df
    /\ UNCHANGED <<rules, vectorizer, ml_classifier, discovered_categories,
                   everFit, bundle, matchVars>>

-----------------------------------------------------------------------------
(* discover_new_categories *)

\* DBSCAN(eps=0.3, min_samples=2, metric='cosine')
min_samples == 2

\* the texts within eps of text i.  Two texts of the model share all their
\* n-grams or none, so their cosine distance is 0 or 1.
neighbours(texts, i) ==
    { j \in 1..Len(texts) : NGrams[texts[j]] = NGrams[texts[i]] }

Min(S) == CHOOSE x \in S : \A y \in S : x <= y

\* fit_predict: -1 for noise, else the cluster's number, clusters numbered
\* in the order of their first member
labels(texts) ==
    LET core(i) == Cardinality(neighbours(texts, i)) >= min_samples
        first(i) == Min(neighbours(texts, i))
    IN  [i \in 1..Len(texts) |->
           IF core(i)
           THEN Cardinality({ j \in 1..(first(i) - 1) : core(j) /\ first(j) = j })
           ELSE -1]

\* new_categories: one entry per cluster, its texts in input order
new_categories(texts) ==
    LET l == labels(texts)
        n == Cardinality({ l[i] : i \in 1..Len(texts) } \ {-1})
    IN  [c \in 1..n |->
           [name |-> c - 1,
            cluster_texts |->
                SelectSeq(texts, LAMBDA t :
                    \E i \in 1..Len(texts) : texts[i] = t /\ l[i] = c - 1)]]

\* a discovery that enters what it found in the rules, with no keywords
discover_rules_adds(r, found) ==
    [r EXCEPT !.categories =
        @ \o [i \in 1..Len(found) |->
                [name |-> found[i].name, info |-> [keywords |-> <<>>]]]]

\* the rules after discover_new_categories: new_categories is a local dict
\* that is returned; self.rules and self.categories are not written
discover_rules(r, found) == r

\* a floor of four texts where the code has five
too_few_texts_4(unknown_texts) == Len(unknown_texts) < MinDiscoverTexts - 1

\* if len(unknown_texts) < 5
too_few_texts(unknown_texts) == Len(unknown_texts) < MinDiscoverTexts

DiscoverNewCategories(unknown_texts) ==
    /\ call' = [op |-> "discover_new_categories", raised |-> "no",
                arg |-> <<>>, n |-> Len(unknown_texts)]
    /\ IF too_few_texts(unknown_texts)
       THEN /\ result' = <<>>
            /\ UNCHANGED <<rules, vectorizer>>
       ELSE /\ vectorizer' = fit(unknown_texts)
            /\ result' = new_categories(unknown_texts)
            /\ rules' = discover_rules(rules, new_categories(unknown_texts))
    /\ UNCHANGED <<ml_classifier, discovered_categories, everFit, bundle,
                   matchVars>>

-----------------------------------------------------------------------------
(* train_ml_model *)

\* the sizes <<n, k>> of the frames handed to train_ml_model: one row short
\* of the sample check, exactly at it, and beyond it with one odd row
TrainSplits ==
    { <<MinTrainSamples - 1, MinTrainSamples - 1>>,
      <<MinTrainSamples, MinTrainSamples>>,
      <<MaxBatch, MaxBatch - 1>> }

\* the frames handed to train_ml_model: frames classified by the rules
LabelledFrames ==
    { [i \in 1..nk[1] |->
         [narration |-> IF i <= nk[2] THEN a ELSE b,
          amount |-> amt,
          category |-> KMN[r][IF i <= nk[2] THEN a ELSE b][1]]] :
        a \in Narrations, b \in Narrations,
        nk \in TrainSplits, amt \in Amounts, r \in EngineRuleSets }

Abs(x) == IF x < 0 THEN -x ELSE x

RECURSIVE Sum(_)
Sum(xs) == IF xs = <<>> THEN 0 ELSE Head(xs) + Sum(Tail(xs))

\* a training frame that keeps the rows of category "Unknown"
labelled_all(df) == df

\* df[df['category'] != 'Unknown']
labelled(df) == SelectSeq(df, LAMBDA row : row.category # "Unknown")

\* the sample check with 9 where the code has 10
too_few_9(train_df) == Len(train_df) < MinTrainSamples - 1

\* if len(train_df) < 10
too_few(train_df) == Len(train_df) < MinTrainSamples

\* sample_weights holds NaN: every amount is 0, so the division is 0 / 0
weights_nan(train_df) ==
    Sum([i \in 1..Len(train_df) |-> Abs(train_df[i].amount)]) = 0

\* RandomForestClassifier(...), before fit
UnfittedForest ==
    [state |-> "unfitted", n_features_in |-> 0, classes |-> {},
     fit_vocabulary |-> {}]

\* the forest after fit(X, y, sample_weight): the number of columns of X and
\* the labels of y; fit_vocabulary records what the columns stood for
FittedForest(vec, train_df) ==
    [state |-> "fitted",
     n_features_in |-> Cardinality(vec.vocabulary),
     classes |-> { train_df[i].category : i \in 1..Len(train_df) },
     fit_vocabulary |-> vec.vocabulary]

TrainMlModel(df) ==
    LET train_df == labelled(df)
        X == fit([i \in 1..Len(train_df) |-> train_df[i].narration])
    IN  /\ result' = <<>>
        /\ IF too_few(train_df)
           THEN /\ call' = [op |-> "train_ml_model", raised |-> "no",
                            arg |-> <<>>, n |-> Len(train_df)]
                /\ UNCHANGED <<vectorizer, ml_classifier, everFit>>
           ELSE /\ vectorizer' = X
                /\ everFit' = TRUE
                /\ IF weights_nan(train_df)
                   THEN /\ ml_classifier' = UnfittedForest
                        /\ call' = [op |-> "train_ml_model",
                                    raised |-> "ValueError",
                                    arg |-> <<>>, n |-> Len(train_df)]
                   ELSE /\ ml_classifier' = FittedForest(X, train_df)
                        /\ call' = [op |-> "train_ml_model", raised |-> "no",
                                    arg |-> <<>>, n |-> Len(train_df)]
        /\ UNCHANGED <<rules, discovered_categories, bundle, matchVars>>

-----------------------------------------------------------------------------
(* save_model *)

\* a dump that pickles a new vectorizer in the place of the engine's
save_model_new_vectorizer(r, vec, ml) ==
    [vectorizer |-> Unfitted, classifier |-> ml, rules |-> r]

\* the dict save_model pickles: vectorizer, classifier and rules
save_model(r, vec, ml) ==
    [vectorizer |-> vec, classifier |-> ml, rules |-> r]

\* save_model(path): the file holds the pickled dict
SaveModel ==
    /\ call' = [op |-> "save_model", raised |-> "no", arg |-> <<>>, n |-> 0]
    /\ result' = <<>>
    /\ bundle' = <<save_model(rules, vectorizer, ml_classifier)>>
    /\ UNCHANGED <<rules, vectorizer, ml_classifier, discovered_categories,
                   everFit, matchVars>>

\* loading the saved bundle: the engine holds the vectorizer, the classifier
\* and the rules of the bundle
LoadModel ==
    /\ bundle # <<>>
    /\ call' = [op |-> "load_model", raised |-> "no", arg |-> <<>>, n |-> 0]
    /\ result' = <<>>
    /\ vectorizer' = bundle[1].vectorizer
    /\ ml_classifier' = bundle[1].classifier
    /\ rules' = bundle[1].rules
    /\ UNCHANGED <<discovered_categories, everFit, bundle, matchVars>>

-----------------------------------------------------------------------------
(* Calls of methods the tests use *)

\* the methods class AdaptiveNERClassifier defines
Methods ==
    {"__init__", "keyword_match", "classify_batch", "_ml_classify",
     "discover_new_categories", "train_ml_model", "save_model"}

\* the lookup of a method on an engine: a name the class does not define
\* raises AttributeError before any argument is looked at
getattr(name) == IF name \in Methods THEN "no" ELSE "AttributeError"

\* the arguments of classifier.classify_single(text=..., amount=...) and of
\* classifier.classify_single(text=...)
Singles ==
    { [narration |-> t, amount |-> 45] : t \in {"uber ride", "acme corp"} }
    \cup { [narration |-> t] : t \in {"uber ride", "acme corp"} }

\* classifier.classify_single(...)
ClassifySingle(row) ==
    /\ call' = [op |-> "classify_single",
                raised |-> getattr("classify_single"),
                arg |-> <<row>>, n |-> 1]
    /\ result' = <<>>
    /\ UNCHANGED <<rules, vectorizer, ml_classifier, discovered_categories,
                   everFit, bundle, matchVars>>

\* classifier.get_stats()
GetStats ==
    /\ call' = [op |-> "get_stats", raised |-> getattr("get_stats"),
                arg |-> <<>>, n |-> 0]
    /\ result' = <<>>
    /\ UNCHANGED <<rules, vectorizer, ml_classifier, discovered_categories,
                   everFit, bundle, matchVars>>

-----------------------------------------------------------------------------
(* The engine: constructed from a rule file, then called in any order *)

Init ==
    /\ rules \in EngineRuleSets
    /\ EngineInit
    /\ NoRun
    /\ text = <<>>
    /\ km = NoResult
    /\ prev = NoEdit

\* The runs of the repository save an engine as their last call on it
\* (train_model.py:56, the save_model step of zenml_pipeline.py); so do the
\* runs here: an engine is called in any order until it is saved, and a
\* saved engine is saved again or loaded.
Next ==
    \/ \E df \in Frames :
          bundle = <<>> /\ ClassifyBatch(df) /\ UNCHANGED runVars
    \/ \E unknown_texts \in TextLists :
          bundle = <<>> /\ DiscoverNewCategories(unknown_texts)
          /\ UNCHANGED runVars
    \/ \E df \in LabelledFrames :
          bundle = <<>> /\ TrainMlModel(df) /\ UNCHANGED runVars
    \/ \E row \in Singles :
          bundle = <<>> /\ ClassifySingle(row) /\ UNCHANGED runVars
    \/ bundle = <<>> /\ GetStats /\ UNCHANGED runVars
    \/ SaveModel /\ UNCHANGED runVars
    \/ LoadModel /\ UNCHANGED runVars

Spec == Init /\ [][Next]_vars

-----------------------------------------------------------------------------
(* train_and_log_model (train_model.py): one run, statement by statement *)

\* df = pd.read_csv(data_path): frames of the sizes around the sample check
RunFrames ==
    { Frame(a, b, nk[1], nk[2], 45) :
        a \in Narrations, b \in Narrations, nk \in TrainSplits }

\* classified_df[classified_df['category'] == 'Unknown']['narration'].tolist()
unknown_texts_of(df) ==
    LET unknown == SelectSeq(df, LAMBDA row : row.category = "Unknown")
    IN  [i \in 1..Len(unknown) |-> unknown[i].narration]

\* where the run goes after a call: on, or out with what the call raised
After(raised, next) == IF raised = "no" THEN next ELSE "raised"

\* classified_df = classifier.classify_batch(df)
RunClassify ==
    /\ pc = "classify"
    /\ ClassifyBatch(dataset)
    /\ classified_df' = result'
    /\ pc' = After(call'.raised, "discover")
    /\ UNCHANGED <<dataset, final_classified>>

\* new_categories = classifier.discover_new_categories(unknown_texts)
RunDiscover ==
    /\ pc = "discover"
    /\ DiscoverNewCategories(unknown_texts_of(classified_df))
    /\ pc' = After(call'.raised, "train")
    /\ UNCHANGED <<dataset, classified_df, final_classified>>

\* classifier.train_ml_model(classified_df)
RunTrain ==
    /\ pc = "train"
    /\ TrainMlModel(classified_df)
    /\ pc' = After(call'.raised, "reclassify")
    /\ UNCHANGED <<dataset, classified_df, final_classified>>

\* if classifier.ml_classifier is not None:
\*     final_classified = classifier.classify_batch(df)
RunReclassify ==
    /\ pc = "reclassify"
    /\ IF ml_classifier.state # "None"
       THEN /\ ClassifyBatch(dataset)
            /\ final_classified' =
                 (IF call'.raised = "no"
                  THEN [bound |-> TRUE, df |-> result']
                  ELSE final_classified)
            /\ pc' = After(call'.raised, "save")
       ELSE /\ pc' = "save"
            /\ UNCHANGED <<rules, engineVars, matchVars, final_classified>>
    /\ UNCHANGED <<dataset, classified_df>>

\* classifier.save_model(model_path)
RunSave ==
    /\ pc = "save"
    /\ SaveModel
    /\ pc' = After(call'.raised, "results")
    /\ UNCHANGED <<dataset, classified_df, final_classified>>

\* final_classified.to_csv(...) and return classifier, final_classified:
\* reading the local raises UnboundLocalError when it was never assigned
RunResults ==
    /\ pc = "results"
    /\ IF final_classified.bound
       THEN /\ call' = [op |-> "train_and_log_model", raised |-> "no",
                        arg |-> <<>>, n |-> Len(dataset)]
            /\ result' = final_classified.df
            /\ pc' = "done"
       ELSE /\ call' = [op |-> "train_and_log_model",
                        raised |-> "UnboundLocalError",
                        arg |-> <<>>, n |-> Len(dataset)]
            /\ result' = <<>>
            /\ pc' = "raised"
    /\ UNCHANGED <<rules, vectorizer, ml_classifier, discovered_categories,
                   everFit, bundle, dataset, classified_df, final_classified,
                   matchVars>>

InitRun ==
    /\ rules \in EngineRuleSets
    /\ EngineInit
    /\ pc = "classify"
    /\ dataset \in RunFrames
    /\ classified_df = <<>>
    /\ final_classified = Unbound
    /\ text = <<>>
    /\ km = NoResult
    /\ prev = NoEdit

NextRun ==
    \/ RunClassify
    \/ RunDiscover
    \/ RunTrain
    \/ RunReclassify
    \/ RunSave
    \/ RunResults

SpecRun == InitRun /\ [][NextRun]_vars

-----------------------------------------------------------------------------
(* Properties of keyword_match, checked under SpecMatch *)

One == [num |-> 1, den |-> 1]

\* C1: the confidence keyword_match returns lies in [0,1], for every text
\* and every rule file
C1_ConfidenceBound ==
    km # NoResult => ~Less(km[2], Zero) /\ ~Less(One, km[2])

\* C7: for a text that holds no keyword of any category, keyword_match
\* returns exactly ("Unknown", 0.0, {}): three components, the last one the
\* empty set of matched keywords
C7_NoMatchTriple ==
    (km # NoResult /\ Found(rules, text) = {}) => km = <<"Unknown", Zero, {}>>

\* the part of C7 the code does meet: category "Unknown" and confidence 0.0
C7_NoMatchPair ==
    (km # NoResult /\ Found(rules, text) = {}) =>
        (km[1] = "Unknown" /\ km[2] = Zero)

\* C8, as claimed: adding one more matching keyword to the text never
\* decreases the confidence, whatever the category of the added keyword
C8_AppendMonotone ==
    (prev.edit = "append" /\ Found(rules, text) # Found(rules, prev.text)) =>
        ~Less(km[2], prev.km[2])

\* C8, amended: putting a keyword in the place of a word that holds no
\* keyword, the number of words unchanged, never decreases the confidence
C8_ReplaceMonotone ==
    prev.edit = "replace" => ~Less(km[2], prev.km[2])

\* C8 witness: a replacement that raised the confidence and moved the best
\* category from one category to another
C8_ReplaceWitness ==
    /\ prev.edit = "replace"
    /\ prev.km[1] # "Unknown"
    /\ km[1] # prev.km[1]
    /\ Less(prev.km[2], km[2])

\* C9: keyword_match returns three components, the third one the set of
\* configured keywords found in the text: not empty when the category is
\* not "Unknown", and holding every keyword of the chosen category that
\* occurs in the text
C9_MatchedKeywords ==
    km # NoResult =>
        /\ Len(km) = 3
        /\ km[3] \subseteq Found(rules, text)
        /\ (km[1] # "Unknown" => km[3] # {})
        /\ \A i \in 1..Len(rules.categories) :
             rules.categories[i].name = km[1] =>
                \A j \in 1..Len(rules.categories[i].info.keywords) :
                   In(rules.categories[i].info.keywords[j], lower(text)) =>
                      rules.categories[i].info.keywords[j] \in km[3]

-----------------------------------------------------------------------------
(* Properties of the construction, checked under SpecConfig *)

\* a rule file with the required keys and a keywords list in every category
WellFormed(config) ==
    /\ {"categories", "unknown_threshold", "review_threshold"}
          \subseteq DOMAIN config
    /\ \A i \in 1..Len(config.categories) :
          "keywords" \in DOMAIN config.categories[i].info

\* C18: construction raises when the rule file lacks categories,
\* unknown_threshold or review_threshold or has a category without a
\* keywords list, so that no classifier that was constructed raises later
\* inside keyword_match
C18_FailFast ==
    /\ (call.op = "__init__" /\ ~WellFormed(call.arg[1]))
          => call.raised # "no"
    /\ call.op = "keyword_match" => call.raised = "no"

-----------------------------------------------------------------------------
(* Properties of the engine, checked under Spec *)

\* the rule-based row of input row i of the last classify_batch call, from
\* keyword_match itself
RuleRow(i) ==
    LET m == keyword_match(rules, Chars[call.arg[i].narration])
    IN  [narration |-> call.arg[i].narration,
         amount |-> call.arg[i].amount,
         category |-> m[1],
         confidence |-> m[2],
         method |-> "rule-based"]

Returned == call.op = "classify_batch" /\ call.raised = "no"

\* C2: discovery leaves the learned model as training left it, so that a
\* classify_batch that falls back on the model transforms with the
\* vocabulary the model was trained on, and does not fail
C2_DiscoveryKeepsModel ==
    (/\ call.op = "classify_batch"
     /\ ml_classifier.state = "fitted"
     /\ low_conf_mask(rules, rule_based(rules, call.arg)) # {})
    => (/\ call.raised = "no"
        /\ vectorizer.vocabulary = ml_classifier.fit_vocabulary)

\* C3: train_ml_model replaces the learned model atomically: after a call,
\* completed or failed, vectorizer and classifier are both the ones from
\* before the call or both the ones this call fitted
C3_TrainAtomic ==
    [][call'.op = "train_ml_model" =>
        \/ (vectorizer' = vectorizer /\ ml_classifier' = ml_classifier)
        \/ (/\ vectorizer'.fitted
            /\ ml_classifier'.state = "fitted"
            /\ ml_classifier'.fit_vocabulary = vectorizer'.vocabulary)]_vars

\* C4: train_ml_model on fewer than 10 rows of a category other than
\* "Unknown" returns without raising and leaves vectorizer and classifier
\* as they were
C4_TrainSkipped ==
    [][(call'.op = "train_ml_model" /\ call'.n < 10) =>
        (/\ call'.raised = "no"
         /\ vectorizer' = vectorizer
         /\ ml_classifier' = ml_classifier)]_vars

\* C4 witness: a call one row short of the sample check, on an engine that
\* holds a trained model
C4_SkippedWitness ==
    /\ call.op = "train_ml_model"
    /\ call.n = 9
    /\ call.raised = "no"
    /\ ml_classifier.state = "fitted"

\* C5: a row whose rule-based confidence is not below unknown_threshold
\* keeps its rule-based category, confidence and method; only rows below
\* the threshold are ml-based
C5_FallbackNonInterference ==
    Returned =>
        \A i \in 1..Len(result) :
           /\ ~Less(RuleRow(i).confidence, Threshold(rules.unknown_threshold))
                => result[i] = RuleRow(i)
           /\ result[i].method = "ml-based"
                => Less(RuleRow(i).confidence, Threshold(rules.unknown_threshold))

\* C5 witness: a result with an ml-based row next to a row the rules kept
C5_Witness ==
    /\ Returned
    /\ \E i \in 1..Len(result) : result[i].method = "ml-based"
    /\ \E i \in 1..Len(result) :
          /\ result[i].method = "rule-based"
          /\ result[i].category # "Unknown"

\* C6: while train_ml_model has never gone past its sample check,
\* classify_batch does not raise and every row of its result is the
\* rule-based row keyword_match gives
C6_AbsentModel ==
    (~everFit /\ call.op = "classify_batch") =>
        /\ call.raised = "no"
        /\ Len(result) = Len(call.arg)
        /\ \A i \in 1..Len(result) : result[i] = RuleRow(i)

\* C6 witness: a classification with a row below the threshold, on an engine
\* whose vectorizer discovery has fitted and whose model is absent
C6_Witness ==
    /\ ~everFit
    /\ Returned
    /\ vectorizer.fitted
    /\ \E i \in 1..Len(result) :
          Less(result[i].confidence, Threshold(rules.unknown_threshold))

\* C11: a classify_batch result has one row per input row, in input order,
\* each with the narration and the amount of the input row at its position,
\* with or without a trained model
C11_OneRowPerInput ==
    (Returned /\ call.n > 0) =>
        /\ Len(result) = Len(call.arg)
        /\ \A i \in 1..Len(call.arg) :
              /\ result[i].narration = call.arg[i].narration
              /\ result[i].amount = call.arg[i].amount

\* C11 witness: a result of two rows that differ in narration and amount,
\* the second one classified by the model
C11_Witness ==
    /\ Returned
    /\ Len(result) = 2
    /\ result[1].narration # result[2].narration
    /\ result[1].amount # result[2].amount
    /\ result[1].method = "rule-based"
    /\ result[2].method = "ml-based"

\* C12: get_stats after a classify_batch call reports total_classified equal
\* to the row count of the result, rule_based_count + ml_based_count equal to
\* total_classified, and rule_based_pct = rule_based_count / total_classified
C12_RunStatistics ==
    [][(Returned /\ call.n > 0 /\ call'.op = "get_stats") =>
        /\ call'.raised = "no"
        /\ result'.total_classified = Len(result)
        /\ result'.rule_based_count + result'.ml_based_count = Len(result)
        /\ result'.rule_based_count =
              Cardinality({ i \in 1..Len(result) :
                             result[i].method = "rule-based" })
        /\ result'.rule_based_pct =
              [num |-> result'.rule_based_count, den |-> Len(result)]]_vars

\* C13: classify_single(text, amount) returns the category and confidence
\* of keyword_match on the text, the amount given (None when omitted) and
\* method "rule-based", on a trained engine too
C13_ClassifySingle ==
    call.op = "classify_single" =>
        /\ call.raised = "no"
        /\ result.category = keyword_match(rules, Chars[call.arg[1].narration])[1]
        /\ result.confidence = keyword_match(rules, Chars[call.arg[1].narration])[2]
        /\ result.method = "rule-based"
        /\ IF "amount" \in DOMAIN call.arg[1]
           THEN result.amount = call.arg[1].amount
           ELSE result.amount = "None"

\* C14: the rules (categories with keywords and weights, unknown_threshold)
\* are fixed at construction: no call of classify_batch (and so of
\* keyword_match), train_ml_model, discover_new_categories or save_model
\* changes them, and discovery adds none of the categories it finds
C14_RulesFixed ==
    [][rules' = rules]_vars

\* C14 witness: a discovery that found a group of texts, on an engine that
\* went through training, with the rules of the rule file
C14_Witness ==
    /\ call.op = "discover_new_categories"
    /\ Len(result) > 0
    /\ ml_classifier.state = "fitted"
    /\ rules \in EngineRuleSets

\* C15: discover_new_categories on fewer than 5 texts, none included,
\* returns an empty mapping without raising and changes nothing of the
\* engine
C15_DiscoverySkipped ==
    [][(call'.op = "discover_new_categories" /\ call'.n < 5) =>
        (/\ call'.raised = "no"
         /\ result' = <<>>
         /\ rules' = rules
         /\ vectorizer' = vectorizer
         /\ ml_classifier' = ml_classifier
         /\ discovered_categories' = discovered_categories)]_vars

\* C15 witness: a call on four texts, on an engine whose vectorizer and
\* model training has fitted
C15_Witness ==
    /\ call.op = "discover_new_categories"
    /\ call.n = 4
    /\ result = <<>>
    /\ vectorizer.fitted
    /\ ml_classifier.state = "fitted"

C19_RunReturns ==
    /\ pc # "raised"
    /\ pc = "done" =>
          /\ call.raised = "no"
          /\ Len(result) = Len(dataset)

\* C20: once train_ml_model has succeeded on an engine with
\* unknown_threshold > 0, no row of a later classify_batch result has the
\* category "Unknown": a row without keyword match is ml-based, with a
\* category of the training labels.  A forest that a later failed training
\* left unfitted counts as well.
C20_NoUnknownAfterTraining ==
    (/\ Returned
     /\ ml_classifier.state # "None"
     /\ rules.unknown_threshold > 0)
    => \A i \in 1..Len(result) :
          /\ result[i].category # "Unknown"
          /\ RuleRow(i).category = "Unknown" =>
                /\ result[i].method = "ml-based"
                /\ result[i].category \in ml_classifier.classes

\* C20 witness: a row without keyword match, classified by the trained
\* model
C20_Witness ==
    /\ Returned
    /\ ml_classifier.state = "fitted"
    /\ rules.unknown_threshold > 0
    /\ \E i \in 1..Len(result) :
          /\ RuleRow(i).category = "Unknown"
          /\ result[i].method = "ml-based"

\* C10: every row of a classify_batch result carries needs_review, equal to
\* (final confidence < review_threshold)
C10_NeedsReview ==
    Returned =>
        \A i \in 1..Len(result) :
           /\ "needs_review" \in DOMAIN result[i]
           /\ result[i].needs_review
                = Less(result[i].confidence, Threshold(rules.review_threshold))

=============================================================================
